---- MODULE Spec2Model ----
(***************************************************************************)
(* A model of pendulum's Date (src/pendulum/date.py): an immutable civil   *)
(* date (year, month, day) with calendar-aware offsets (add / subtract),   *)
(* unit boundaries (start_of / end_of), weekday search (next / previous),  *)
(* ordinal weekday queries (first_of / last_of / nth_of) and average.      *)
(*                                                                         *)
(* A Date is the record [year, month, day].  A call that raises yields the *)
(* record of its exception (ValueError, DateTimeException) in place of a   *)
(* Date, and a method called on such a record yields it again.  The calls  *)
(* the class makes into the standard library (calendar, datetime) and into *)
(* dateutil's relativedelta are modelled by what those calls compute.      *)
(* datetime's representable range (years 1..9999) is not modelled: years   *)
(* are unbounded integers, and the model explores windows of years far     *)
(* from both ends of that range.                                           *)
(***************************************************************************)
EXTENDS Integers, Sequences, FiniteSets, TLC

VARIABLES
    self,            \* the Date instance the current call is made on
    op,              \* the method called last ("none" before any call)
    args,            \* the arguments of that call
    res,             \* the outcome of that call
    steps,           \* one-day steps of the last next/previous, next() calls of nth_of
    week_starts_at,  \* pendulum._WEEK_STARTS_AT
    week_ends_at     \* pendulum._WEEK_ENDS_AT

vars == <<self, op, args, res, steps, week_starts_at, week_ends_at>>

----------------------------------------------------------------------------
(* Constants imported from pendulum.constants. *)

SUNDAY == 0
MONDAY == 1
TUESDAY == 2
WEDNESDAY == 3
THURSDAY == 4
FRIDAY == 5
SATURDAY == 6
DAYS_PER_WEEK == 7
YEARS_PER_DECADE == 10
YEARS_PER_CENTURY == 100
MONTHS_PER_YEAR == 12

(* Python's None, for an omitted day_of_week argument. *)
None == -1

----------------------------------------------------------------------------
(* Bounds of the explored inputs. *)

FirstYear == 2023      \* the window of consecutive years starts here
YearSpan == 1          \* ... and holds YearSpan + 1 years
MaxDelta == 2          \* months and days of a delta range over -MaxDelta..MaxDelta
MaxNth == 2            \* nth ranges over 1..MaxNth and the spill-over values
MaxSpill == 2          \* ... which reach MaxSpill past the unit's whole weeks
MaxDiff == 4           \* average: the other date lies within MaxDiff days

----------------------------------------------------------------------------
(* The standard library: calendar and datetime. *)

\* calendar.isleap(year)
isleap(year) ==
    year % 4 = 0 /\ (year % 100 /= 0 \/ year % 400 = 0)

\* calendar.mdays, January..December
mdays == <<31, 28, 31, 30, 31, 30, 31, 31, 30, 31, 30, 31>>

\* calendar.monthrange(year, month)[1]
monthrange_days(year, month) ==
    mdays[month] + (IF month = 2 /\ isleap(year) THEN 1 ELSE 0)

\* datetime._days_before_year(year): days before January 1st of year
days_before_year(year) ==
    LET y == year - 1
    IN  y * 365 + (y \div 4) - (y \div 100) + (y \div 400)

\* datetime._DAYS_BEFORE_MONTH, January..December (of a common year)
_DAYS_BEFORE_MONTH == <<0, 31, 59, 90, 120, 151, 181, 212, 243, 273, 304, 334>>

\* datetime._days_before_month(year, month)
days_before_month(year, month) ==
    _DAYS_BEFORE_MONTH[month] + (IF month > 2 /\ isleap(year) THEN 1 ELSE 0)

\* date.toordinal(): January 1st of year 1 is day 1
toordinal(d) ==
    days_before_year(d.year) + days_before_month(d.year, d.month) + d.day

\* date.fromordinal(n) (datetime._ord2ymd)
fromordinal(n) ==
    LET n0   == n - 1
        n400 == n0 \div 146097
        r400 == n0 % 146097
        n100 == r400 \div 36524
        r100 == r400 % 36524
        n4   == r100 \div 1461
        r4   == r100 % 1461
        n1   == r4 \div 365
        r1   == r4 % 365
        year == n400 * 400 + 1 + n100 * 100 + n4 * 4 + n1
    IN  IF n1 = 4 \/ n100 = 4
        THEN [year |-> year - 1, month |-> 12, day |-> 31]
        ELSE LET leapyear == n1 = 3 /\ (n4 /= 24 \/ n100 = 3)
                 leap(m)  == IF m > 2 /\ leapyear THEN 1 ELSE 0
                 guess    == (r1 + 50) \div 32
                 month    == IF _DAYS_BEFORE_MONTH[guess] + leap(guess) > r1
                             THEN guess - 1
                             ELSE guess
                 preceding == _DAYS_BEFORE_MONTH[month] + leap(month)
             IN  [year |-> year, month |-> month, day |-> r1 - preceding + 1]

\* date.weekday(): Monday = 0 .. Sunday = 6
weekday(d) == (toordinal(d) + 6) % 7

\* date.isoweekday(): Monday = 1 .. Sunday = 7
isoweekday(d) == weekday(d) + 1

\* calendar.monthcalendar(year, month): the month's weeks, Monday first, each
\* a row of 7 day numbers with 0 for the days outside the month
monthcalendar(year, month) ==
    LET first == weekday([year |-> year, month |-> month, day |-> 1])
        ndays == monthrange_days(year, month)
        nrows == (first + ndays + 6) \div 7
    IN  [r \in 1..nrows |->
            [c \in 1..7 |->
                LET n == (r - 1) * 7 + (c - 1) - first + 1
                IN  IF n >= 1 /\ n <= ndays THEN n ELSE 0]]

----------------------------------------------------------------------------
(* Values. *)

\* What a raising constructor or method yields instead of a Date.
ValueError == [raised |-> "ValueError"]
DateTimeException == [raised |-> "DateTimeException"]

\* The False that _nth_of_month / _nth_of_quarter / _nth_of_year return when
\* the occurrence lies outside the unit.
False == [found |-> FALSE]

\* v is a Date instance (not an exception, not False)
IsDate(v) == "year" \in DOMAIN v

\* Date(year, month, day): datetime.date.__new__ checks the fields
Date(year, month, day) ==
    IF /\ 1 <= month /\ month <= 12
       /\ 1 <= day /\ day <= monthrange_days(year, month)
    THEN [year |-> year, month |-> month, day |-> day]
    ELSE ValueError

\* Date.instance(dt)
instance(dt) ==
    IF IsDate(dt) THEN Date(dt.year, dt.month, dt.day) ELSE dt

\* Date.replace(year=None, month=None, day=None)
replace(d, year, month, day) ==
    Date(IF year /= None THEN year ELSE d.year,
         IF month /= None THEN month ELSE d.month,
         IF day /= None THEN day ELSE d.day)

\* Date.set(year=None, month=None, day=None)
set(d, year, month, day) == replace(d, year, month, day)

\* Date.day_of_week: Sunday = 0 .. Saturday = 6
day_of_week(d) == isoweekday(d) % 7

\* Date.is_leap_year()
is_leap_year(d) == isleap(d.year)

\* (mutant) k is 2 in a leap year and 1 otherwise
day_of_year_k_swapped(d) ==
    LET k == IF is_leap_year(d) THEN 2 ELSE 1
    IN  ((275 * d.month) \div 9) - k * ((d.month + 9) \div 12) + d.day - 30

\* Date.day_of_year
day_of_year(d) ==
    LET k == IF is_leap_year(d) THEN 1 ELSE 2
    IN  ((275 * d.month) \div 9) - k * ((d.month + 9) \div 12) + d.day - 30

\* Date.days_in_month
days_in_month(d) == monthrange_days(d.year, d.month)

\* Date.quarter: int(math.ceil(month / 3))
quarter(d) ==
    IF d.month % 3 = 0 THEN d.month \div 3 ELSE (d.month \div 3) + 1

\* Date.format('YYYY-MM'): the year and month label
format_YYYY_MM(d) == <<d.year, d.month>>

----------------------------------------------------------------------------
(* dateutil.relativedelta, as add and subtract use it. *)

Abs(n) == IF n < 0 THEN -n ELSE n
Sign(n) == IF n < 0 THEN -1 ELSE 1
Min(a, b) == IF a < b THEN a ELSE b

\* relativedelta(years=, months=, weeks=, days=): weeks fold into days, and
\* _fix() folds months beyond 11 into years
relativedelta(years, months, weeks, days) ==
    LET s == Sign(months)
        over == Abs(months) > 11
    IN  [years  |-> IF over THEN years + ((months * s) \div 12) * s ELSE years,
         months |-> IF over THEN ((months * s) % 12) * s ELSE months,
         days   |-> days + weeks * 7]

\* (mutant) the days of the delta keep their sign
neg_keeps_days(delta) ==
    relativedelta(-delta.years, -delta.months, 0, delta.days)

\* relativedelta.__neg__()
neg(delta) ==
    relativedelta(-delta.years, -delta.months, 0, -delta.days)

\* (mutant) a month past December does not carry into the year
shift_month_no_carry(dt, delta) ==
    LET year  == dt.year + delta.years
        month == dt.month + delta.months
    IN  IF month > 12 THEN [year |-> year, month |-> month - 12]
        ELSE IF month < 1 THEN [year |-> year, month |-> month + 12]
        ELSE [year |-> year, month |-> month]

\* The (year, month) that date + delta lands in, before the day is set
shift_month(dt, delta) ==
    LET year  == dt.year + delta.years
        month == dt.month + delta.months
    IN  IF month > 12 THEN [year |-> year + 1, month |-> month - 12]
        ELSE IF month < 1 THEN [year |-> year - 1, month |-> month + 12]
        ELSE [year |-> year, month |-> month]

\* date + relativedelta (relativedelta.__radd__): move year and month, cut the
\* day to the month's length, then add the days as a timedelta
radd(dt, delta) ==
    LET ym   == shift_month(dt, delta)
        day  == Min(monthrange_days(ym.year, ym.month), dt.day)
        repl == [year |-> ym.year, month |-> ym.month, day |-> day]
    IN  fromordinal(toordinal(repl) + delta.days)

\* date - relativedelta (relativedelta.__rsub__)
rsub(dt, delta) == radd(dt, neg(delta))

\* Date.add(years=0, months=0, weeks=0, days=0)
add(d, years, months, weeks, days) ==
    IF ~IsDate(d) THEN d
    ELSE instance(radd(Date(d.year, d.month, d.day),
                       relativedelta(years, months, weeks, days)))

\* Date.subtract(years=0, months=0, weeks=0, days=0)
subtract(d, years, months, weeks, days) ==
    IF ~IsDate(d) THEN d
    ELSE instance(rsub(Date(d.year, d.month, d.day),
                       relativedelta(years, months, weeks, days)))

----------------------------------------------------------------------------
(* next / previous: the one-day scans. *)

RECURSIVE next_scan(_, _, _)
\* the while loop of Date.next, with the count of one-day steps taken so far
next_scan(dt, target, n) ==
    IF ~IsDate(dt) THEN [dt |-> dt, steps |-> n]
    ELSE IF day_of_week(dt) /= target
    THEN next_scan(add(dt, 0, 0, 0, 1), target, n + 1)
    ELSE [dt |-> dt, steps |-> n]

\* (mutant) the scan starts at the date itself, not at the day after
next_run_from_self(d, dow) ==
    LET target == IF dow = None THEN day_of_week(d) ELSE dow
    IN  IF target < SUNDAY \/ target > SATURDAY
        THEN [dt |-> ValueError, steps |-> 0]
        ELSE next_scan(d, target, 0)

\* Date.next(day_of_week=None) with the number of add(days=1) calls it makes
next_run(d, dow) ==
    LET target == IF dow = None THEN day_of_week(d) ELSE dow
    IN  IF target < SUNDAY \/ target > SATURDAY
        THEN [dt |-> ValueError, steps |-> 0]
        ELSE next_scan(add(d, 0, 0, 0, 1), target, 1)

\* Date.next(day_of_week=None)
next(d, dow) ==
    IF ~IsDate(d) THEN d ELSE next_run(d, dow).dt

RECURSIVE previous_scan(_, _, _)
\* the while loop of Date.previous
previous_scan(dt, target, n) ==
    IF ~IsDate(dt) THEN [dt |-> dt, steps |-> n]
    ELSE IF day_of_week(dt) /= target
    THEN previous_scan(subtract(dt, 0, 0, 0, 1), target, n + 1)
    ELSE [dt |-> dt, steps |-> n]

\* Date.previous(day_of_week=None) with the number of subtract(days=1) calls
previous_run(d, dow) ==
    LET target == IF dow = None THEN day_of_week(d) ELSE dow
    IN  IF target < SUNDAY \/ target > SATURDAY
        THEN [dt |-> ValueError, steps |-> 0]
        ELSE previous_scan(subtract(d, 0, 0, 0, 1), target, 1)

\* Date.previous(day_of_week=None)
previous(d, dow) ==
    IF ~IsDate(d) THEN d ELSE previous_run(d, dow).dt

----------------------------------------------------------------------------
(* start_of / end_of. *)

_MODIFIERS_VALID_UNITS == {"day", "week", "month", "year", "decade", "century"}

_start_of_day(d) == d

_end_of_day(d) == d

_start_of_month(d) == set(d, d.year, d.month, 1)

\* (mutant) every month ends on the 31st
_end_of_month_31(d) == set(d, d.year, d.month, 31)

\* Date._end_of_month()
_end_of_month(d) == set(d, d.year, d.month, days_in_month(d))

_start_of_year(d) == set(d, d.year, 1, 1)

_end_of_year(d) == set(d, d.year, 12, 31)

_start_of_decade(d) ==
    LET year == d.year - (d.year % YEARS_PER_DECADE)
    IN  set(d, year, 1, 1)

_end_of_decade(d) ==
    LET year == d.year - (d.year % YEARS_PER_DECADE) + YEARS_PER_DECADE - 1
    IN  set(d, year, 12, 31)

\* (mutant) a year divisible by 100 starts its century
_start_of_century_hundreds(d) ==
    set(d, d.year - (d.year % YEARS_PER_CENTURY), 1, 1)

_start_of_century(d) ==
    LET year == d.year - 1 - ((d.year - 1) % YEARS_PER_CENTURY) + 1
    IN  set(d, year, 1, 1)

_end_of_century(d) ==
    LET year == d.year - 1 - ((d.year - 1) % YEARS_PER_CENTURY) + YEARS_PER_CENTURY
    IN  set(d, year, 12, 31)

\* (mutant) the week's first day is searched forward, as its last day is
_start_of_week_forward(d) ==
    LET dt == IF day_of_week(d) /= week_starts_at
              THEN next(d, week_starts_at)
              ELSE d
    IN  IF IsDate(dt) THEN _start_of_day(dt) ELSE dt

\* Date._start_of_week(): reads pendulum._WEEK_STARTS_AT
_start_of_week(d) ==
    LET dt == IF day_of_week(d) /= week_starts_at
              THEN previous(d, week_starts_at)
              ELSE d
    IN  IF IsDate(dt) THEN _start_of_day(dt) ELSE dt

\* (mutant) the week's last day is searched even from that day itself
_end_of_week_always_next(d) ==
    _end_of_day(next(d, week_ends_at))

\* Date._end_of_week(): reads pendulum._WEEK_ENDS_AT
_end_of_week(d) ==
    LET dt == IF day_of_week(d) /= week_ends_at
              THEN next(d, week_ends_at)
              ELSE d
    IN  IF IsDate(dt) THEN _end_of_day(dt) ELSE dt

\* Date.start_of(unit)
start_of(d, unit) ==
    IF ~IsDate(d) THEN d
    ELSE IF unit \notin _MODIFIERS_VALID_UNITS THEN ValueError
    ELSE CASE unit = "day"     -> _start_of_day(d)
           [] unit = "week"    -> _start_of_week(d)
           [] unit = "month"   -> _start_of_month(d)
           [] unit = "year"    -> _start_of_year(d)
           [] unit = "decade"  -> _start_of_decade(d)
           [] unit = "century" -> _start_of_century(d)

\* Date.end_of(unit)
end_of(d, unit) ==
    IF ~IsDate(d) THEN d
    ELSE IF unit \notin _MODIFIERS_VALID_UNITS THEN ValueError
    ELSE CASE unit = "day"     -> _end_of_day(d)
           [] unit = "week"    -> _end_of_week(d)
           [] unit = "month"   -> _end_of_month(d)
           [] unit = "year"    -> _end_of_year(d)
           [] unit = "decade"  -> _end_of_decade(d)
           [] unit = "century" -> _end_of_century(d)

----------------------------------------------------------------------------
(* first_of / last_of / nth_of. *)

_ORDINAL_UNITS == {"month", "quarter", "year"}

\* Date._first_of_month(day_of_week)
_first_of_month(d, dow) ==
    IF ~IsDate(d) THEN d
    ELSE IF dow = None THEN set(d, None, None, 1)
    ELSE LET month        == monthcalendar(d.year, d.month)
             calendar_day == (dow - 1) % 7
             day_of_month == IF month[1][calendar_day + 1] > 0
                             THEN month[1][calendar_day + 1]
                             ELSE month[2][calendar_day + 1]
         IN  set(d, None, None, day_of_month)

\* (mutant) the weekday is used as the matrix column without the shift from
\* Sunday = 0 to Monday = 0
_last_of_month_no_shift(d, dow) ==
    IF ~IsDate(d) THEN d
    ELSE IF dow = None THEN set(d, None, None, days_in_month(d))
    ELSE LET month        == monthcalendar(d.year, d.month)
             calendar_day == dow % 7
             last         == Len(month)
             day_of_month == IF month[last][calendar_day + 1] > 0
                             THEN month[last][calendar_day + 1]
                             ELSE month[last - 1][calendar_day + 1]
         IN  set(d, None, None, day_of_month)

\* Date._last_of_month(day_of_week=None)
_last_of_month(d, dow) ==
    IF ~IsDate(d) THEN d
    ELSE IF dow = None THEN set(d, None, None, days_in_month(d))
    ELSE LET month        == monthcalendar(d.year, d.month)
             calendar_day == (dow - 1) % 7
             last         == Len(month)
             day_of_month == IF month[last][calendar_day + 1] > 0
                             THEN month[last][calendar_day + 1]
                             ELSE month[last - 1][calendar_day + 1]
         IN  set(d, None, None, day_of_month)

\* Date._first_of_quarter(day_of_week=None); .first_of('month', day_of_week)
\* dispatches to _first_of_month
_first_of_quarter(d, dow) ==
    _first_of_month(set(d, d.year, quarter(d) * 3 - 2, 1), dow)

\* Date._last_of_quarter(day_of_week=None)
_last_of_quarter(d, dow) ==
    _last_of_month(set(d, d.year, quarter(d) * 3, 1), dow)

\* Date._first_of_year(day_of_week=None)
_first_of_year(d, dow) ==
    _first_of_month(set(d, None, 1, None), dow)

\* Date._last_of_year(day_of_week=None)
_last_of_year(d, dow) ==
    _last_of_month(set(d, None, MONTHS_PER_YEAR, None), dow)

\* Date.first_of(unit, day_of_week=None)
first_of(d, unit, dow) ==
    IF ~IsDate(d) THEN d
    ELSE IF unit \notin _ORDINAL_UNITS THEN ValueError
    ELSE CASE unit = "month"   -> _first_of_month(d, dow)
           [] unit = "quarter" -> _first_of_quarter(d, dow)
           [] unit = "year"    -> _first_of_year(d, dow)

\* Date.last_of(unit, day_of_week=None)
last_of(d, unit, dow) ==
    IF ~IsDate(d) THEN d
    ELSE IF unit \notin _ORDINAL_UNITS THEN ValueError
    ELSE CASE unit = "month"   -> _last_of_month(d, dow)
           [] unit = "quarter" -> _last_of_quarter(d, dow)
           [] unit = "year"    -> _last_of_year(d, dow)

RECURSIVE next_times(_, _, _)
\* for i in range(count): dt = dt.next(day_of_week)
next_times(dt, dow, count) ==
    IF count <= 0 \/ ~IsDate(dt) THEN dt
    ELSE next_times(next(dt, dow), dow, count - 1)

\* (mutant) the first day of the unit never counts as an occurrence
nth_count_no_first(dt, nth, dow) == nth

\* (mutant) the first day of the unit counts when its weekday differs
nth_count_reversed(dt, nth, dow) ==
    nth - (IF day_of_week(dt) = dow THEN 0 ELSE 1)

\* range(nth - (1 if dt.day_of_week == day_of_week else 0)): the number of
\* next() calls the _nth_of_* loops make from the unit's first day dt
nth_count(dt, nth, dow) ==
    nth - (IF day_of_week(dt) = dow THEN 1 ELSE 0)

\* (mutant) no month holds more than four of a weekday
_nth_of_month_four_weeks(d, nth, dow) ==
    IF nth = 1 THEN first_of(d, "month", dow)
    ELSE LET first == first_of(d, "month", None)
             dt    == next_times(first, dow, nth_count(first, nth, dow))
         IN  IF ~IsDate(dt) THEN dt
             ELSE IF nth <= 4
             THEN set(d, None, None, dt.day)
             ELSE False

\* Date._nth_of_month(nth, day_of_week)
_nth_of_month(d, nth, dow) ==
    IF nth = 1 THEN first_of(d, "month", dow)
    ELSE LET first == first_of(d, "month", None)
             check == format_YYYY_MM(first)
             dt    == next_times(first, dow, nth_count(first, nth, dow))
         IN  IF ~IsDate(dt) THEN dt
             ELSE IF format_YYYY_MM(dt) = check
             THEN set(d, None, None, dt.day)
             ELSE False

\* Date._nth_of_quarter(nth, day_of_week)
_nth_of_quarter(d, nth, dow) ==
    IF nth = 1 THEN first_of(d, "quarter", dow)
    ELSE LET last       == replace(d, d.year, quarter(d) * 3, 1)
             last_month == last.month
             year       == last.year
             first      == first_of(last, "quarter", None)
             dt         == next_times(first, dow, nth_count(first, nth, dow))
         IN  IF ~IsDate(dt) THEN dt
             ELSE IF last_month < dt.month \/ year /= dt.year
             THEN False
             ELSE set(d, d.year, dt.month, dt.day)

\* Date._nth_of_year(nth, day_of_week)
_nth_of_year(d, nth, dow) ==
    IF nth = 1 THEN first_of(d, "year", dow)
    ELSE LET first == first_of(d, "year", None)
             year  == first.year
             dt    == next_times(first, dow, nth_count(first, nth, dow))
         IN  IF ~IsDate(dt) THEN dt
             ELSE IF year /= dt.year
             THEN False
             ELSE set(d, d.year, dt.month, dt.day)

\* Date.nth_of(unit, nth, day_of_week)
nth_of(d, unit, nth, dow) ==
    IF ~IsDate(d) THEN d
    ELSE IF unit \notin _ORDINAL_UNITS THEN ValueError
    ELSE LET dt == CASE unit = "month"   -> _nth_of_month(d, nth, dow)
                     [] unit = "quarter" -> _nth_of_quarter(d, nth, dow)
                     [] unit = "year"    -> _nth_of_year(d, nth, dow)
         IN  IF dt = False THEN DateTimeException ELSE dt

RECURSIVE next_calls(_, _, _)
\* for i in range(count): dt = dt.next(day_of_week): the number of next()
\* calls the loop makes (none when count <= 0)
next_calls(dt, dow, count) ==
    IF count <= 0 \/ ~IsDate(dt) THEN 0
    ELSE 1 + next_calls(next(dt, dow), dow, count - 1)

\* The Date the loops of _nth_of_month / _nth_of_quarter / _nth_of_year
\* start from
nth_of_start(d, unit) ==
    CASE unit = "month"   -> first_of(d, "month", None)
      [] unit = "quarter" ->
            first_of(replace(d, d.year, quarter(d) * 3, 1), "quarter", None)
      [] unit = "year"    -> first_of(d, "year", None)

\* The number of next() calls one nth_of call makes: none through first_of
\* when nth == 1, else those of the loop
nth_of_calls(d, unit, nth, dow) ==
    IF unit \notin _ORDINAL_UNITS \/ nth = 1 THEN 0
    ELSE LET first == nth_of_start(d, unit)
         IN  next_calls(first, dow, nth_count(first, nth, dow))

----------------------------------------------------------------------------
(* average. *)

\* Period(start, end, absolute).in_days(): the days from start to end, signed
\* unless absolute
in_days(start, end, absolute) ==
    LET n == toordinal(end) - toordinal(start)
    IN  IF absolute THEN Abs(n) ELSE n

\* Date.diff(dt, abs).in_days()
diff_in_days(d, dt, abs) == in_days(d, instance(dt), abs)

\* (mutant) floor division: x // 2
int_half_floor(x) == x \div 2

\* int(x / 2): true division, then truncation toward zero
int_half(x) == IF x >= 0 THEN x \div 2 ELSE -((-x) \div 2)

\* Date.average(dt)
average(d, dt) ==
    add(d, 0, 0, 0, int_half(diff_in_days(d, dt, FALSE)))

----------------------------------------------------------------------------
(* The explored inputs. *)

\* Two century years (1900 is not a leap year, 2000 is one) and a window of
\* consecutive years
Years == {1900, 2000} \cup (FirstYear .. FirstYear + YearSpan)

\* Every Date of the explored years: the triples the constructor accepts
Dates ==
    {d \in [year : Years, month : 1..12, day : 1..31] :
        Date(d.year, d.month, d.day) = d}

Weekdays == SUNDAY .. SATURDAY

\* The deltas of the add / subtract round trips: each part alone and mixed,
\* of both signs, with 13 months to fold into a year
Deltas ==
    [years : {0, 1}, months : (-MaxDelta .. MaxDelta) \cup {13},
     weeks : {-1, 0}, days : -MaxDelta .. MaxDelta]

\* The deltas of the call sequences
SmallDeltas ==
    [years : {0}, months : {-1, 0, 1}, weeks : {0}, days : {-1, 0, 1}]

\* The occurrences asked of nth_of: the first ones, and those from the
\* number of whole weeks of a unit on (a month holds 4 or 5 of a weekday, a
\* quarter 12 to 14, a year 52 or 53)
NthValues(unit) ==
    LET weeks == CASE unit = "month"   -> 4
                   [] unit = "quarter" -> 13
                   [] unit = "year"    -> 52
    IN  (1 .. MaxNth) \cup (weeks .. weeks + MaxSpill)

\* The occurrences asked within call sequences
SmallNth(unit) == 1 .. MaxNth

\* The dates nth_of is asked from when nth /= 1 (each such call scans the unit
\* day by day): the first and the last day of the unit, and the 15th of its
\* middle months
MidMonths(unit) ==
    CASE unit = "month"   -> 1..12
      [] unit = "quarter" -> {2, 5, 8, 11}
      [] unit = "year"    -> {2, 8}

IsSample(d, unit) ==
    \/ d = first_of(d, unit, None)
    \/ d = last_of(d, unit, None)
    \/ d.day = 15 /\ d.month \in MidMonths(unit)

\* The week anchors: week_ends_at is the day before week_starts_at
Anchors ==
    {[starts |-> s, ends |-> (s + 6) % 7] : s \in Weekdays}

----------------------------------------------------------------------------
(* The calls.  A call is made on self when no call is pending (op = "none") *)
(* and leaves its outcome in res; Date instances are immutable, so no call *)
(* assigns to self.                                                        *)

NoArgs == << >>

Call(name, a, r, n) ==
    /\ op = "none"
    /\ op' = name
    /\ args' = a
    /\ res' = r
    /\ steps' = n
    /\ UNCHANGED <<self, week_starts_at, week_ends_at>>

Add(D) ==
    \E a \in D :
        Call("add", a, add(self, a.years, a.months, a.weeks, a.days), 0)

Subtract(D) ==
    \E a \in D :
        Call("subtract", a,
             subtract(self, a.years, a.months, a.weeks, a.days), 0)

StartOf ==
    \E unit \in _MODIFIERS_VALID_UNITS :
        Call("start_of", [unit |-> unit], start_of(self, unit), 0)

EndOf ==
    \E unit \in _MODIFIERS_VALID_UNITS :
        Call("end_of", [unit |-> unit], end_of(self, unit), 0)

NextCall ==
    \E dow \in Weekdays \cup {None} :
        LET run == next_run(self, dow)
        IN  Call("next", [day_of_week |-> dow], run.dt, run.steps)

PreviousCall ==
    \E dow \in Weekdays \cup {None} :
        LET run == previous_run(self, dow)
        IN  Call("previous", [day_of_week |-> dow], run.dt, run.steps)

FirstOf ==
    \E unit \in _ORDINAL_UNITS, dow \in Weekdays \cup {None} :
        Call("first_of", [unit |-> unit, day_of_week |-> dow],
             first_of(self, unit, dow), 0)

LastOf ==
    \E unit \in _ORDINAL_UNITS, dow \in Weekdays \cup {None} :
        Call("last_of", [unit |-> unit, day_of_week |-> dow],
             last_of(self, unit, dow), 0)

NthOf(spill) ==
    \E unit \in _ORDINAL_UNITS, dow \in Weekdays :
        \E nth \in IF spill THEN NthValues(unit) ELSE SmallNth(unit) :
            /\ op = "none"
            /\ nth /= 1 => IsSample(self, unit)
            /\ Call("nth_of", [unit |-> unit, nth |-> nth, day_of_week |-> dow],
                    nth_of(self, unit, nth, dow), 0)

Average ==
    \E k \in -MaxDiff .. MaxDiff :
        LET dt == fromordinal(toordinal(self) + k)
        IN  Call("average", [dt |-> dt], average(self, dt), 0)

\* nth_of with any integer nth, zero and negative ones included; steps
\* holds the number of next() calls the call made.  As in NthOf, the calls
\* with nth other than 1 are made on the sample days of each unit.
NthOfLoop ==
    \E unit \in _ORDINAL_UNITS, dow \in Weekdays :
        \E nth \in (-MaxNth) .. (MaxNth + 1) :
            /\ op = "none"
            /\ nth /= 1 => IsSample(self, unit)
            /\ Call("nth_of", [unit |-> unit, nth |-> nth, day_of_week |-> dow],
                 nth_of(self, unit, nth, dow),
                 nth_of_calls(self, unit, nth, dow))

DayOfYear ==
    Call("day_of_year", NoArgs, [value |-> day_of_year(self)], 0)

\* The caller goes on with the Date a call returned: d = d.add(...), ...
Continue ==
    /\ op /= "none"
    /\ IsDate(res)
    /\ res.year \in Years
    /\ self' = res
    /\ op' = "none"
    /\ args' = NoArgs
    /\ steps' = 0
    /\ UNCHANGED <<res, week_starts_at, week_ends_at>>

\* d.add(**delta).subtract(**delta): the subtraction of the delta just added,
\* made on the Date that add returned
SubtractBack ==
    /\ op = "add"
    /\ IsDate(res)
    /\ self' = res
    /\ op' = "subtract"
    /\ args' = args
    /\ res' = subtract(res, args.years, args.months, args.weeks, args.days)
    /\ UNCHANGED <<steps, week_starts_at, week_ends_at>>

----------------------------------------------------------------------------
(* Specifications. *)

InitOn(D, A) ==
    /\ self \in D
    /\ op = "none"
    /\ args = NoArgs
    /\ res = self
    /\ steps = 0
    /\ \E a \in A : week_starts_at = a.starts /\ week_ends_at = a.ends

DefaultAnchor == {[starts |-> MONDAY, ends |-> SUNDAY]}

\* Sequences of calls, each made on the Date the one before returned
Init == InitOn(Dates, DefaultAnchor)

Next ==
    \/ Add(SmallDeltas)
    \/ Subtract(SmallDeltas)
    \/ StartOf
    \/ EndOf
    \/ NextCall
    \/ PreviousCall
    \/ FirstOf
    \/ LastOf
    \/ NthOf(FALSE)
    \/ Average
    \/ DayOfYear
    \/ Continue

Spec == Init /\ [][Next]_vars

\* add, then subtract of the same delta
NextDelta ==
    \/ Add(Deltas)
    \/ SubtractBack

SpecDelta == Init /\ [][NextDelta]_vars

\* start_of / end_of under every week anchor
InitBoundary == InitOn(Dates, Anchors)

NextBoundary ==
    \/ StartOf
    \/ EndOf

SpecBoundary == InitBoundary /\ [][NextBoundary]_vars

\* d.start_of(unit).start_of(unit), d.end_of(unit).end_of(unit): the call
\* just made, made again on the Date it returned
Again ==
    /\ op \in {"start_of", "end_of"}
    /\ IsDate(res)
    /\ self' = res
    /\ op' = op
    /\ args' = args
    /\ res' = IF op = "start_of" THEN start_of(res, args.unit)
                                 ELSE end_of(res, args.unit)
    /\ UNCHANGED <<steps, week_starts_at, week_ends_at>>

\* start_of / end_of under every week anchor, each applied once or twice
NextAgain ==
    \/ StartOf
    \/ EndOf
    \/ Again

SpecAgain == InitBoundary /\ [][NextAgain]_vars

\* nth_of up to the occurrences that spill out of the unit
NextOrdinal ==
    \/ FirstOf
    \/ LastOf
    \/ NthOf(TRUE)

SpecOrdinal == Init /\ [][NextOrdinal]_vars

\* nth_of alone, with its loop counted
NextLoop == NthOfLoop

SpecLoop == Init /\ [][NextLoop]_vars

----------------------------------------------------------------------------
(* Reference notions the properties are stated with. *)

\* The chronological order of dates: that of the (year, month, day) triples
DateLt(a, b) ==
    \/ a.year < b.year
    \/ a.year = b.year /\ a.month < b.month
    \/ a.year = b.year /\ a.month = b.month /\ a.day < b.day

DateLe(a, b) == a = b \/ DateLt(a, b)

\* The weekday (Sunday = 0) of the day with ordinal o: day 1 is a Monday
DowOfOrdinal(o) == o % 7

\* The first and the last month of the unit that holds d
UnitMonths(d, unit) ==
    CASE unit = "month"   -> [first |-> d.month, last |-> d.month]
      [] unit = "quarter" -> LET q == (d.month - 1) \div 3
                             IN  [first |-> 3 * q + 1, last |-> 3 * q + 3]
      [] unit = "year"    -> [first |-> 1, last |-> 12]

\* The length of a month: 30 days hath September, ...
MonthLength(year, month) ==
    CASE month \in {4, 6, 9, 11} -> 30
      [] month = 2 ->
            IF year % 4 = 0 /\ (year % 100 /= 0 \/ year % 400 = 0)
            THEN 29 ELSE 28
      [] OTHER -> 31

\* The ordinals of the days of the unit that holds d: from the first day of
\* its first month to the last day of its last month
UnitOrdinals(d, unit) ==
    LET ms == UnitMonths(d, unit)
    IN  toordinal([year |-> d.year, month |-> ms.first, day |-> 1]) ..
        toordinal([year |-> d.year, month |-> ms.last,
                   day |-> MonthLength(d.year, ms.last)])

\* The ordinals of the days with weekday w in the unit that holds d
Occurrences(d, unit, w) ==
    {o \in UnitOrdinals(d, unit) : DowOfOrdinal(o) = w}

\* o is the n-th smallest member of the set S of ordinals
IsNth(o, n, S) ==
    o \in S /\ Cardinality({x \in S : x < o}) = n - 1

----------------------------------------------------------------------------
(* C1: nth_of(d, unit, n, w) with n >= 1 returns the n-th date, in         *)
(* chronological order, with weekday w inside the unit (month, quarter,    *)
(* year) that holds d when the unit has at least n such dates, and raises  *)
(* DateTimeException exactly when the unit has fewer than n of them.       *)

C1_NthOfIsNthOccurrence ==
    (op = "nth_of" /\ args.nth >= 1) =>
        LET occ == Occurrences(self, args.unit, args.day_of_week)
        IN  IF Cardinality(occ) >= args.nth
            THEN IsDate(res) /\ IsNth(toordinal(res), args.nth, occ)
            ELSE res = DateTimeException

\* a quarter asked for its 14th Tuesday, which it has
C1_Witness ==
    /\ op = "nth_of"
    /\ args.unit = "quarter"
    /\ args.nth = 14
    /\ args.day_of_week = TUESDAY
    /\ IsDate(res)

----------------------------------------------------------------------------
(* C2: nth_of(Date(2024, 2, 1), month, 5, THURSDAY).  February 2024 starts *)
(* on a Thursday and has 29 days, so it has five Thursdays (1, 8, 15, 22   *)
(* and 29).                                                                *)

C2_Call(nth) ==
    /\ op = "nth_of"
    /\ self = [year |-> 2024, month |-> 2, day |-> 1]
    /\ args = [unit |-> "month", nth |-> nth, day_of_week |-> THURSDAY]

\* C2 as claimed: the 5th Thursday of February 2024 is not found
C2_FifthThursdayNotFound ==
    C2_Call(5) => res = DateTimeException

\* C2 as amended: the 5th Thursday of February 2024 is February 29th, and it
\* is the 6th that is not found
C2_FifthThursdayIsFeb29 ==
    /\ C2_Call(5) => res = [year |-> 2024, month |-> 2, day |-> 29]
    /\ C2_Call(6) => res = DateTimeException

C2_Witness ==
    C2_Call(5) /\ IsDate(res) /\ day_of_week(res) = THURSDAY

----------------------------------------------------------------------------
(* Reference notions for deltas. *)

\* The (year, month) reached from d by n months on the linear month index
\* year * 12 + (month - 1)
MonthsFrom(d, n) ==
    LET index == d.year * 12 + (d.month - 1) + n
    IN  [year |-> index \div 12, month |-> (index % 12) + 1]

\* The month part and the day part of a delta
MonthPart(a) == a.years * 12 + a.months
DayPart(a) == a.weeks * 7 + a.days

\* Adding the delta a to d cuts the day to the length of the month reached
Clamps(d, a) ==
    LET ym == MonthsFrom(d, MonthPart(a))
    IN  d.day > MonthLength(ym.year, ym.month)

\* v is a valid Gregorian date
ValidDate(v) ==
    /\ IsDate(v)
    /\ v.month \in 1..12
    /\ v.day \in 1 .. MonthLength(v.year, v.month)

----------------------------------------------------------------------------
(* C3: if adding a delta to d cuts no day to a month's end, subtracting    *)
(* the same delta from the result gives d back.                            *)

\* C3 as claimed: for every delta, mixed ones included
C3_RoundTripAnyDelta ==
    [][(op = "add" /\ op' = "subtract" /\ ~Clamps(self, args))
          => res' = self]_vars

\* C3 as amended: for the deltas that have a year/month part only or a
\* week/day part only
C3_RoundTripPureDelta ==
    [][(/\ op = "add" /\ op' = "subtract"
        /\ ~Clamps(self, args)
        /\ (MonthPart(args) = 0 \/ DayPart(args) = 0))
          => res' = self]_vars

\* March 31st, reached from January 31st by two months, and taken back
C3_Witness ==
    /\ op = "subtract"
    /\ args = [years |-> 0, months |-> 2, weeks |-> 0, days |-> 0]
    /\ self = [year |-> 2024, month |-> 3, day |-> 31]
    /\ res = [year |-> 2024, month |-> 1, day |-> 31]

----------------------------------------------------------------------------
(* C6: add moves (year, month) by years * 12 + months on the linear month  *)
(* index, cuts the day to min(day, length of the month reached) once, and  *)
(* only then shifts by weeks * 7 + days days; it never raises, and a day   *)
(* that was cut does not roll over into the following month.               *)

C6_AddFoldsClampsThenShifts ==
    op = "add" =>
        LET ym      == MonthsFrom(self, MonthPart(args))
            length  == MonthLength(ym.year, ym.month)
            clamped == [year  |-> ym.year, month |-> ym.month,
                        day   |-> IF self.day < length THEN self.day
                                  ELSE length]
        IN  /\ ValidDate(res)
            /\ toordinal(res) = toordinal(clamped) + DayPart(args)
            /\ DayPart(args) = 0 => res = clamped

\* January 31st plus one month, in a leap year
C6_Witness ==
    /\ op = "add"
    /\ self = [year |-> 2024, month |-> 1, day |-> 31]
    /\ args = [years |-> 0, months |-> 1, weeks |-> 0, days |-> 0]
    /\ res = [year |-> 2024, month |-> 2, day |-> 29]

----------------------------------------------------------------------------
(* C4: start_of(d, unit) <= d <= end_of(d, unit) in chronological order,   *)
(* for the units day, week, month, year, decade and century, the week      *)
(* ending the day before it starts: week_ends_at = (week_starts_at + 6) % 7*)

C4_StartLeSelfLeEnd ==
    week_ends_at = (week_starts_at + 6) % 7 =>
        /\ op = "start_of" => (ValidDate(res) /\ DateLe(res, self))
        /\ op = "end_of"   => (ValidDate(res) /\ DateLe(self, res))

\* a Saturday, in a week that starts on Wednesday
C4_Witness ==
    /\ op = "start_of"
    /\ args.unit = "week"
    /\ week_starts_at = WEDNESDAY
    /\ week_ends_at = TUESDAY
    /\ DowOfOrdinal(toordinal(self)) = SATURDAY
    /\ DateLt(res, self)

----------------------------------------------------------------------------
(* C5: next(d, w) is the one date among d + 1 .. d + 7 days whose weekday  *)
(* is w, so next(d, weekday(d)) is d + 7 days and never d; previous(d, w)  *)
(* is the one date among d - 7 .. d - 1 days with weekday w.  Both scans   *)
(* take at most 7 one-day steps.                                           *)

\* The weekday a call of next / previous looks for
C5_Target ==
    IF args.day_of_week = None
    THEN DowOfOrdinal(toordinal(self))
    ELSE args.day_of_week

C5_NextPreviousWithinAWeek ==
    /\ op = "next" =>
          /\ ValidDate(res)
          /\ {o \in (toordinal(self) + 1) .. (toordinal(self) + 7) :
                 DowOfOrdinal(o) = C5_Target} = {toordinal(res)}
          /\ steps = toordinal(res) - toordinal(self)
          /\ steps <= 7
    /\ op = "previous" =>
          /\ ValidDate(res)
          /\ {o \in (toordinal(self) - 7) .. (toordinal(self) - 1) :
                 DowOfOrdinal(o) = C5_Target} = {toordinal(res)}
          /\ steps = toordinal(self) - toordinal(res)
          /\ steps <= 7

\* next() asked for the weekday of the date itself: a week later
C5_Witness ==
    /\ op = "next"
    /\ args.day_of_week = DowOfOrdinal(toordinal(self))
    /\ toordinal(res) = toordinal(self) + 7
    /\ steps = 7

----------------------------------------------------------------------------
(* C7: first_of(d, unit, w) is the earliest and last_of(d, unit, w) the    *)
(* latest date with weekday w inside the month, quarter or year that holds *)
(* d; in a month the first lies in its days 1..7 and the last in its last  *)
(* 7 days.                                                                 *)

\* The smallest and the largest member of a set of ordinals
Smallest(S) == CHOOSE x \in S : \A y \in S : x <= y
Largest(S) == CHOOSE x \in S : \A y \in S : x >= y

C7_FirstLastOfUnit ==
    /\ (op = "first_of" /\ args.day_of_week /= None) =>
          /\ ValidDate(res)
          /\ toordinal(res) =
                Smallest(Occurrences(self, args.unit, args.day_of_week))
          /\ args.unit = "month" => res.day \in 1..7
    /\ (op = "last_of" /\ args.day_of_week /= None) =>
          /\ ValidDate(res)
          /\ toordinal(res) =
                Largest(Occurrences(self, args.unit, args.day_of_week))
          /\ args.unit = "month" =>
                res.day > MonthLength(self.year, self.month) - 7

\* the last Sunday of a quarter, found in the quarter's last month
C7_Witness ==
    /\ op = "last_of"
    /\ args.unit = "quarter"
    /\ args.day_of_week = SUNDAY
    /\ self.month = 4
    /\ ValidDate(res)
    /\ res.month = 6

----------------------------------------------------------------------------
(* C8: the closed form of day_of_year equals the count of the days of the  *)
(* earlier months of the year plus the day, in leap and common years, and  *)
(* lies in 1..365 (1..366 in a leap year).                                 *)

RECURSIVE DaysOfEarlierMonths(_, _)
DaysOfEarlierMonths(year, month) ==
    IF month = 1 THEN 0
    ELSE DaysOfEarlierMonths(year, month - 1) + MonthLength(year, month - 1)

C8_DayOfYearIsDayCount ==
    op = "day_of_year" =>
        /\ res.value = DaysOfEarlierMonths(self.year, self.month) + self.day
        /\ res.value >= 1
        /\ res.value <= DaysOfEarlierMonths(self.year, 12) + 31

\* December 31st of a leap year is day 366
C8_Witness ==
    /\ op = "day_of_year"
    /\ self = [year |-> 2024, month |-> 12, day |-> 31]
    /\ res.value = 366

----------------------------------------------------------------------------
(* C9: whatever sequence of add, subtract, start_of, end_of, next,         *)
(* previous, first_of, last_of, nth_of and average is applied to a valid   *)
(* date, each call returns a valid Gregorian date (nth_of may raise        *)
(* DateTimeException instead), none raises ValueError, and no call changes *)
(* the date it is made on.                                                 *)

C9_Calls ==
    {"add", "subtract", "start_of", "end_of", "next", "previous",
     "first_of", "last_of", "nth_of", "average"}

C9_ValidAfterCall ==
    /\ ValidDate(self)
    /\ op \in C9_Calls =>
          \/ ValidDate(res)
          \/ op = "nth_of" /\ res = DateTimeException

----------------------------------------------------------------------------
(* C10: average(d, other) is d shifted by half the signed number of days   *)
(* from d to other, the half truncated toward zero whether other lies      *)
(* after or before d; so it lies between d and other.                      *)

C10_AverageTruncatesTowardZero ==
    op = "average" =>
        LET diff  == toordinal(args.dt) - toordinal(self)
            shift == toordinal(res) - toordinal(self)
        IN  /\ ValidDate(res)
            /\ diff >= 0 => (2 * shift = diff \/ 2 * shift = diff - 1)
            /\ diff < 0 => (2 * shift = diff \/ 2 * shift = diff + 1)
            /\ \/ DateLe(self, res) /\ DateLe(res, args.dt)
               \/ DateLe(args.dt, res) /\ DateLe(res, self)

\* the other date 3 days before: the average is 1 day before, not 2
C10_Witness ==
    /\ op = "average"
    /\ toordinal(args.dt) - toordinal(self) = -3
    /\ toordinal(res) - toordinal(self) = -1

----------------------------------------------------------------------------
(* C11: start_of(d, decade) is January 1st of year - (year mod 10) and     *)
(* end_of(d, decade) December 31st of the year 9 later; start_of(d,        *)
(* century) is January 1st of the year 100 * (N - 1) + 1 and end_of(d,     *)
(* century) December 31st of the year 100 * N, N being the 1-based century *)
(* that holds d.  A year divisible by 100 ends its century and starts its  *)
(* decade.                                                                 *)

\* The 1-based century that holds a year: 1..100 is the 1st, 1901..2000 the
\* 20th
CenturyOf(year) == ((year + 99) \div 100)

C11_DecadeAndCenturyBounds ==
    LET first == self.year - (self.year % 10)
        N     == CenturyOf(self.year)
    IN  /\ (op = "start_of" /\ args.unit = "decade")
              => res = [year |-> first, month |-> 1, day |-> 1]
        /\ (op = "end_of" /\ args.unit = "decade")
              => res = [year |-> first + 9, month |-> 12, day |-> 31]
        /\ (op = "start_of" /\ args.unit = "century")
              => res = [year |-> 100 * (N - 1) + 1, month |-> 1, day |-> 1]
        /\ (op = "end_of" /\ args.unit = "century")
              => res = [year |-> 100 * N, month |-> 12, day |-> 31]

\* the year 2000 starts in the century 1901..2000
C11_Witness ==
    /\ op = "start_of"
    /\ args.unit = "century"
    /\ self.year = 2000
    /\ res = [year |-> 1901, month |-> 1, day |-> 1]

----------------------------------------------------------------------------
(* C12: with week_ends_at = (week_starts_at + 6) % 7, start_of(d, week) is *)
(* the latest date not after d whose weekday is week_starts_at (d itself   *)
(* when d has that weekday), end_of(d, week) the earliest date not before  *)
(* d whose weekday is week_ends_at, end_of(d, week) is 6 days after        *)
(* start_of(d, week), and applying either a second time changes nothing.   *)

\* start_of / end_of with the unit week was called, under an anchor whose
\* week ends the day before it starts
C12_WeekCall(name) ==
    /\ op = name
    /\ args.unit = "week"
    /\ week_ends_at = (week_starts_at + 6) % 7

C12_WeekBounds ==
    LET o == toordinal(self)
    IN  /\ C12_WeekCall("start_of") =>
              /\ ValidDate(res)
              /\ toordinal(res) =
                    Largest({n \in (o - 6) .. o :
                                DowOfOrdinal(n) = week_starts_at})
              /\ toordinal(end_of(self, "week")) = toordinal(res) + 6
        /\ C12_WeekCall("end_of") =>
              /\ ValidDate(res)
              /\ toordinal(res) =
                    Smallest({n \in o .. (o + 6) :
                                 DowOfOrdinal(n) = week_ends_at})
              /\ toordinal(start_of(self, "week")) = toordinal(res) - 6

C12_WeekStartAndEnd ==
    /\ []C12_WeekBounds
    /\ [][((C12_WeekCall("start_of") \/ C12_WeekCall("end_of"))
              /\ op' = op /\ self' = res)
             => res' = res]_vars

\* a Tuesday in a week that runs from Sunday to Saturday: the week ends 4
\* days later, and its end is the end of its own week
C12_Witness ==
    /\ op = "end_of"
    /\ args.unit = "week"
    /\ week_starts_at = SUNDAY
    /\ week_ends_at = SATURDAY
    /\ self = res
    /\ DowOfOrdinal(toordinal(self)) = SATURDAY

----------------------------------------------------------------------------
(* C13: for nth other than 1, nth_of starts at the first day of the unit   *)
(* and calls next(., weekday) a number of times that depends on whether    *)
(* that first day has the weekday asked for.                               *)

\* The first day of the unit that holds d
FirstDayOfUnit(d, unit) ==
    [year |-> d.year, month |-> UnitMonths(d, unit).first, day |-> 1]

\* A loop asked to make a negative number of passes makes none
Passes(n) == IF n < 0 THEN 0 ELSE n

\* nth_of was called with nth other than 1
C13_Call ==
    /\ op = "nth_of"
    /\ args.nth /= 1

\* The first day of the unit has the weekday the call asks for
C13_StartMatches ==
    DowOfOrdinal(toordinal(FirstDayOfUnit(self, args.unit)))
        = args.day_of_week

\* C13 as claimed: nth calls of next when the first day of the unit has the
\* weekday, nth - 1 calls when it has not
C13_LoopCountAsClaimed ==
    C13_Call =>
        steps = Passes(IF C13_StartMatches THEN args.nth ELSE args.nth - 1)

\* C13 as amended: nth - 1 calls of next when the first day of the unit has
\* the weekday (it is the first occurrence itself), nth calls when it has
\* not
C13_LoopCountSkipsMatchingStart ==
    C13_Call =>
        steps = Passes(IF C13_StartMatches THEN args.nth - 1 ELSE args.nth)

\* the 2nd Thursday of February 2024, a month that starts on a Thursday:
\* one call of next
C13_Witness ==
    /\ C13_Call
    /\ self = [year |-> 2024, month |-> 2, day |-> 1]
    /\ args = [unit |-> "month", nth |-> 2, day_of_week |-> THURSDAY]
    /\ steps = 1
    /\ res = [year |-> 2024, month |-> 2, day |-> 8]

----------------------------------------------------------------------------
(* C14: for every integer nth, zero and negative ones included, nth_of     *)
(* raises DateTimeException or returns a date that has the weekday asked   *)
(* for and lies in the unit that holds d.                                  *)

C14_NthOfKeepsWeekday ==
    op = "nth_of" =>
        \/ res = DateTimeException
        \/ /\ ValidDate(res)
           /\ DowOfOrdinal(toordinal(res)) = args.day_of_week
           /\ toordinal(res) \in UnitOrdinals(self, args.unit)

====
